---------------------------- MODULE Spec2Model ----------------------------
(***************************************************************************)
(* Model of the dataset caching / download / recipe subsystem of           *)
(* AI4SCR/ai4scr-data (dataset/datasets.py, dataset/data.py,               *)
(* dataset/examples.py).                                                   *)
(*                                                                         *)
(* The file system is one cache root directory (cache_root / module) and   *)
(* the files in it.  A file is a record: a raw file written by the fetch   *)
(* loop is [kind |-> "stream", total, written] (the first `written` bytes  *)
(* of a remote stream of `total` bytes), a cache entry written by          *)
(* pickle.dump is [kind |-> "pkl", bytes].                                 *)
(***************************************************************************)
EXTENDS Integers, Sequences, FiniteSets, TLC

VARIABLES
    cacheDir,   \* what is at cache_root / module: "absent", "dir" or "file"
    files,      \* the files under the cache root: file name -> content
    recipes,    \* RecipeMixIn.recipes: recipe name -> function
    ent,        \* the dataset entity of the latest constructor call
    last,       \* the latest call made by the user and what it returned or raised
    dl,         \* the frame of a running _download_progress call
    obs,        \* the latest presence check made on the raw file
    saved,      \* history: cache key -> what the latest save_cache to it did
    registered, \* history: recipe name -> its first and latest registration
    desc,       \* the DataSet descriptor (data.py) constructed last
    tree        \* what is at each path a descriptor can be given

vars == <<cacheDir, files, recipes, ent, last, dl, obs, saved, registered,
          desc, tree>>

---------------------------------------------------------------------------
(* Bounds of the model *)

\* the remote streams served are at most MaxBlocks blocks long
MaxBlocks == 2

\* the texts a descriptor is normalised from are at most MaxTextLen
\* characters long
MaxTextLen == 3

---------------------------------------------------------------------------
(* Values *)

Min(a, b) == IF a < b THEN a ELSE b

NoErr == "none"

\* no file at a path
Absent == [kind |-> "absent"]

\* blocksize = 1024 * 8
blocksize == 1024 * 8

\* the sizes (in bytes) of the remote streams: empty, one byte past a block
\* boundary, and exactly on a block boundary
StreamSizes ==
    {0} \cup {(k - 1) * blocksize + 1 : k \in 1..MaxBlocks}
        \cup {k * blocksize : k \in 1..MaxBlocks}

\* what can end a step of the transfer early: an error raised by the
\* connection or the file, or an interruption from outside
Failures == {"Exception", "KeyboardInterrupt"}

\* AI4SCRDataset subclass of examples.py and its raw file name
DatasetName == "DB"

\* self.get_cache_path(self.dataset_name + '_raw')
RawFileName(cls) == cls \o "_raw"

---------------------------------------------------------------------------
(* The directory of files *)

is_file(fs, name) == name \in DOMAIN fs

ReadFile(fs, name) == IF name \in DOMAIN fs THEN fs[name] ELSE Absent

WriteFile(fs, name, content) ==
    [n \in (DOMAIN fs) \cup {name} |-> IF n = name THEN content ELSE fs[n]]

unlink(fs, name) == [n \in (DOMAIN fs) \ {name} |-> fs[n]]

\* the content of `name` becomes f (Absent: no file)
StoreFile(fs, name, f) ==
    IF f.kind = "absent" THEN unlink(fs, name) ELSE WriteFile(fs, name, f)

\* a raw file holds a whole stream
Complete(f) == f.kind = "stream" /\ f.written = f.total

---------------------------------------------------------------------------
(* _download_progress, one step at a time.  d is the frame of the call, f  *)
(* the content of the destination path.                                    *)

IdleFrame ==
    [pc |-> "idle", total |-> 0, pos |-> 0, block |-> 0, blocknum |-> 0,
     progress |-> 0, err |-> NoErr, hadFile |-> FALSE, midway |-> FALSE]

\* blocksize = 1024 * 8; blocknum = 0; try:
EnterFetch(f) ==
    [IdleFrame EXCEPT !.pc = "urlopen", !.hadFile = (f.kind # "absent")]

\* with urlopen(Request(url, ...)) as rsp: the server answers with a stream
Urlopen(d, size) == [d EXCEPT !.pc = "open", !.total = size]

\* fpath.open('wb') creates the file or truncates it
OpenWb(d, f) ==
    [d |-> [d EXCEPT !.pc = "read"],
     f |-> [kind |-> "stream", total |-> d.total, written |-> 0]]

\* block = rsp.read(blocksize)
ReadBlock(d) ==
    LET n == Min(blocksize, d.total - d.pos)
    IN  [d EXCEPT !.block = n, !.pos = @ + n, !.pc = "write"]

\* mutant of WriteBlock: the progress bar is advanced by one per block
WriteBlock_counts_blocks(d, f) ==
    IF d.block > 0
    THEN [d |-> [d EXCEPT !.blocknum = @ + 1, !.progress = @ + 1,
                          !.pc = "read"],
          f |-> [f EXCEPT !.written = @ + d.block]]
    ELSE [d |-> [d EXCEPT !.pc = "returned"], f |-> f]

\* while block: f.write(block); blocknum += 1; t.update(len(block))
WriteBlock(d, f) ==
    IF d.block > 0
    THEN [d |-> [d EXCEPT !.blocknum = @ + 1, !.progress = @ + d.block,
                          !.pc = "read"],
          f |-> [f EXCEPT !.written = @ + d.block]]
    ELSE [d |-> [d EXCEPT !.pc = "returned"], f |-> f]

InTry(d) == d.pc \in {"urlopen", "open", "read", "write"}

\* except (KeyboardInterrupt, Exception):
Caught(failure) == failure \in {"KeyboardInterrupt", "Exception"}

\* a statement of the try block raises
RaiseInTry(d, failure) ==
    [d EXCEPT !.pc = IF Caught(failure) THEN "except" ELSE "raised",
              !.err = failure,
              !.midway = (d.blocknum > 0)]

\* mutant of Cleanup: the handler re-raises without the unlink
Cleanup_keeps_file(d, f) ==
    [d |-> [d EXCEPT !.pc = "raised"], f |-> f]

\* if fpath.is_file(): fpath.unlink()
\* raise
Cleanup(d, f) ==
    [d |-> [d EXCEPT !.pc = "raised"],
     f |-> IF f.kind # "absent" THEN Absent ELSE f]

\* one step of the call; ev is what the environment does at this step:
\* [fail |-> NoErr, size |-> n] lets the step run (n: the stream the server
\* answers with), [fail |-> e, ...] raises e in it
FetchStep(d, f, ev) ==
    IF d.pc = "except" THEN Cleanup(d, f)
    ELSE IF ev.fail # NoErr THEN [d |-> RaiseInTry(d, ev.fail), f |-> f]
    ELSE IF d.pc = "urlopen" THEN [d |-> Urlopen(d, ev.size), f |-> f]
    ELSE IF d.pc = "open" THEN OpenWb(d, f)
    ELSE IF d.pc = "read" THEN [d |-> ReadBlock(d), f |-> f]
    ELSE WriteBlock(d, f)

FetchEvents(d) ==
    IF d.pc = "except" THEN {[fail |-> NoErr, size |-> 0]}
    ELSE [fail : Failures, size : {0}]
         \cup [fail : {NoErr},
               size : IF d.pc = "urlopen" THEN StreamSizes ELSE {0}]

---------------------------------------------------------------------------
(* The fetch on its own: a caller runs download() step by step while the   *)
(* raw file is looked at from outside.                                      *)

\* no DataSet constructed yet
NoDescriptor == [made |-> FALSE]

\* no path a descriptor can be given exists
NoTree == << >>

NoObs == [made |-> FALSE, present |-> FALSE, file |-> Absent, during |-> "idle"]

NoEntity == [pc |-> "none"]
NoCall == [op |-> "none"]

InitFetch ==
    /\ cacheDir \in {"absent", "dir"}
    /\ files = << >>
    /\ recipes = << >>
    /\ ent = NoEntity
    /\ last = NoCall
    /\ dl = IdleFrame
    /\ obs = NoObs
    /\ saved = << >>
    /\ registered = << >>
    /\ desc = NoDescriptor
    /\ tree = NoTree

FetchPath == RawFileName(DatasetName)

\* self.cache_root.mkdir(parents=True, exist_ok=True)
MakeCacheRoot ==
    /\ cacheDir = "absent"
    /\ cacheDir' = "dir"
    /\ UNCHANGED <<files, recipes, ent, last, dl, obs, saved, registered, desc, tree>>

\* mutant of CallDownload: the transfer starts without the test of the parent
CallDownload_unchecked ==
    /\ dl.pc \in {"idle", "returned", "raised", "invalid"}
    /\ dl' = EnterFetch(ReadFile(files, FetchPath))
    /\ UNCHANGED <<cacheDir, files, recipes, ent, last, obs, saved, registered, desc, tree>>

\* download(): if self.path.parent.is_dir(): self._download_progress(...)
\*             else: raise ValueError
CallDownload ==
    /\ dl.pc \in {"idle", "returned", "raised", "invalid"}
    /\ dl' = IF cacheDir = "dir"
             THEN EnterFetch(ReadFile(files, FetchPath))
             ELSE [IdleFrame EXCEPT !.pc = "invalid", !.err = "ValueError"]
    /\ UNCHANGED <<cacheDir, files, recipes, ent, last, obs, saved, registered, desc, tree>>

\* the call advances by one step
FetchAdvance ==
    /\ InTry(dl) \/ dl.pc = "except"
    /\ \E ev \in FetchEvents(dl) :
         LET r == FetchStep(dl, ReadFile(files, FetchPath), ev)
         IN  /\ dl' = r.d
             /\ files' = StoreFile(files, FetchPath, r.f)
    /\ UNCHANGED <<cacheDir, recipes, ent, last, obs, saved, registered, desc, tree>>

\* DataSet.has_cache_raw: os.path.isfile(self.fpath)
has_cache_raw(fs, fpath) == is_file(fs, fpath)

\* the test of DownloadMixIn.__init__ of another entity with the same path:
\* if self.force_download or not self.path.is_file(): self.download()
PresenceCheck ==
    /\ obs' = [made |-> TRUE,
               present |-> is_file(files, FetchPath),
               file |-> ReadFile(files, FetchPath),
               during |-> dl.pc]
    /\ UNCHANGED <<cacheDir, files, recipes, ent, last, dl, saved, registered, desc, tree>>

\* has_cache_raw() called on a descriptor with the same raw file
HasCacheRaw ==
    /\ obs' = [made |-> TRUE,
               present |-> has_cache_raw(files, FetchPath),
               file |-> ReadFile(files, FetchPath),
               during |-> dl.pc]
    /\ UNCHANGED <<cacheDir, files, recipes, ent, last, dl, saved, registered, desc, tree>>

NextFetch ==
    \/ MakeCacheRoot
    \/ CallDownload
    \/ FetchAdvance
    \/ PresenceCheck
    \/ HasCacheRaw

SpecFetch == InitFetch /\ [][NextFetch]_vars

\* a call of _download_progress that has started keeps running: each
\* statement of it is executed in its turn
SpecFetchFair == SpecFetch /\ WF_vars(FetchAdvance)

---------------------------------------------------------------------------
(* _download_progress run to its end, as a sequential caller sees it.      *)

\* what the environment does during one call: the stream served, and the
\* step of the try block (1: urlopen, 2: open, 3: read, 4: write, ...) at
\* which `fail` is raised; failAt = 0: nothing is raised.  A stream of
\* MaxBlocks blocks takes 4 + 2 * MaxBlocks steps.
MaxFailAt == 4 + 2 * MaxBlocks

Scenarios == [size : StreamSizes, failAt : 0..MaxFailAt, fail : Failures]

ScenarioEvent(sc, step) ==
    [fail |-> IF sc.failAt = step THEN sc.fail ELSE NoErr, size |-> sc.size]

RECURSIVE RunFetchFrom(_, _, _, _)
RunFetchFrom(d, f, sc, step) ==
    IF ~ (InTry(d) \/ d.pc = "except") THEN [d |-> d, f |-> f]
    ELSE LET r == FetchStep(d, f, ScenarioEvent(sc, step))
         IN  RunFetchFrom(r.d, r.f, sc, step + 1)

\* _download_progress(fpath, url) under scenario sc, fpath holding f
download_progress(f, sc) == RunFetchFrom(EnterFetch(f), f, sc, 1)

\* what the caller sees of a finished call: the error raised (or none) and
\* the destination file
Outcome(r) == [err |-> IF r.d.pc = "raised" THEN r.d.err ELSE NoErr, f |-> r.f]

\* the streams the calls on an entity are run against: the empty one and
\* those that end one byte into a block
SetupSizes == {0} \cup {(k - 1) * blocksize + 1 : k \in 1..MaxBlocks}

SetupScenarios == {sc \in Scenarios : sc.size \in SetupSizes}

CompleteFiles ==
    {[kind |-> "stream", total |-> s, written |-> s] : s \in SetupSizes}

DownloadOutcomesOf[f \in {Absent} \cup CompleteFiles] ==
    {Outcome(download_progress(f, sc)) : sc \in SetupScenarios}

\* every way one call of _download_progress on a path holding f can end
DownloadOutcomes(f) ==
    IF f \in DOMAIN DownloadOutcomesOf THEN DownloadOutcomesOf[f]
    ELSE {Outcome(download_progress(f, sc)) : sc \in SetupScenarios}

---------------------------------------------------------------------------
(* Python values *)

None == "None"

\* bool(x) of a string or None
Truthy(x) == x \notin {None, ""}

NoData == [t |-> "None"]

\* pd.read_table(self.path, sep=';'): the table parsed from the raw file.
\* `age` counts what has been added to the age column of the file.
Table(f) == [t |-> "table", total |-> f.total, rows |-> f.written, age |-> 0]

\* pickle.dump(obj, f): the bytes written
Dumps(v) ==
    IF v.t = "None" THEN <<0>>
    ELSE <<1, v.total, v.rows, v.age>>

\* objects pickle.dump refuses (a lambda, an open file, ...)
Unpicklable == [t |-> "function"]

Picklable(v) == v.t \in {"None", "table"}

\* pickle.load(f) reads one object from the start of the bytes: they must
\* begin with a whole pickle
Loadable(b) ==
    /\ Len(b) > 0
    /\ \/ b[1] = 0
       \/ b[1] = 1 /\ Len(b) >= 4

Loads(b) ==
    IF b[1] = 0 THEN NoData
    ELSE [t |-> "table", total |-> b[2], rows |-> b[3], age |-> b[4]]

\* the functions examples.py registers, both under the name 'default'
RecipeFns == {"SimpleRecipe.recipe_default", "DB.recipe_default"}

\* def recipe_default(data): data['age'] = data.age + 1; return data
recipe_default(data) == [data EXCEPT !.age = @ + 1]

\* class attribute path = None of BaseDataset and DownloadMixIn
ClassPath == None

\* get_recipe_filename: f'{self.dataset_name}_{recipe}.pkl'
get_recipe_filename(cls, recipe) == cls \o "_" \o recipe \o ".pkl"

\* a dict with d[k] = v
DictSet(d, k, v) == [n \in (DOMAIN d) \cup {k} |-> IF n = k THEN v ELSE d[n]]

---------------------------------------------------------------------------
(* A call on a dataset entity, run from its first statement to its return  *)
(* or raise.  m holds the file system, the registry, the attributes of     *)
(* the entity and the locals of the running methods:                       *)
(*   err   the exception that is propagating (NoErr: none)                 *)
(*   net   what the environment does in each download of the call          *)
(*   need  the call reached a download for which net holds no outcome      *)
(*   log   the effects of the call, in the order they happen               *)
(*   tmp   the value a method returns to its caller                        *)

\* no statement runs once an exception propagates
Halted(m) == m.err # NoErr \/ m.need

Raise(m, e) == [m EXCEPT !.err = e]

Logged(m, event) == [m EXCEPT !.log = Append(@, event)]

\* CacheMixIn.load_cache:
\*   with open(self.cache_root / fname, 'rb') as f: data = pickle.load(f)
load_cache(m, fname) ==
    IF Halted(m) THEN m
    ELSE IF m.cacheDir # "dir" \/ ~ is_file(m.files, fname)
    THEN Raise(m, "FileNotFoundError")
    ELSE LET f == m.files[fname]
         IN  IF f.kind = "pkl" /\ Loadable(f.bytes)
             THEN [Logged(m, "load_cache " \o fname) EXCEPT
                      !.tmp = Loads(f.bytes), !.keys = @ \cup {fname}]
             ELSE IF f.kind = "pkl" /\ f.bytes = << >> THEN Raise(m, "EOFError")
             ELSE Raise(m, "UnpicklingError")

\* mutant of save_cache: the file is opened with 'ab' instead of 'wb'
save_cache_appends(m, data, fname) ==
    IF Halted(m) THEN m
    ELSE IF m.cacheDir # "dir" THEN Raise(m, "FileNotFoundError")
    ELSE LET old == ReadFile(m.files, fname)
             kept == IF old.kind = "pkl" THEN old.bytes ELSE << >>
         IN  IF ~ Picklable(data)
             THEN [m EXCEPT !.files = WriteFile(@, fname, [kind |-> "pkl", bytes |-> kept]),
                            !.err = "PicklingError"]
             ELSE [Logged(m, "save_cache " \o fname) EXCEPT
                      !.files = WriteFile(@, fname,
                                   [kind |-> "pkl", bytes |-> kept \o Dumps(data)]),
                      !.keys = @ \cup {fname}]

\* mutant of save_cache: a missing cache root is made before the file is
\* opened
save_cache_makes_root(m, data, fname) ==
    IF Halted(m) THEN m
    ELSE IF m.cacheDir = "file" THEN Raise(m, "FileExistsError")
    ELSE IF ~ Picklable(data)
    THEN [m EXCEPT !.cacheDir = "dir",
                   !.files = WriteFile(@, fname, [kind |-> "pkl", bytes |-> << >>]),
                   !.err = "PicklingError"]
    ELSE [Logged(m, "save_cache " \o fname) EXCEPT
             !.cacheDir = "dir",
             !.files = WriteFile(@, fname, [kind |-> "pkl", bytes |-> Dumps(data)]),
             !.keys = @ \cup {fname}]

\* CacheMixIn.save_cache:
\*   with open(self.cache_root / fname, 'wb') as f: pickle.dump(data, f)
save_cache(m, data, fname) ==
    IF Halted(m) THEN m
    ELSE IF m.cacheDir # "dir" THEN Raise(m, "FileNotFoundError")
    ELSE IF ~ Picklable(data)
    THEN [m EXCEPT !.files = WriteFile(@, fname, [kind |-> "pkl", bytes |-> << >>]),
                   !.err = "PicklingError"]
    ELSE [Logged(m, "save_cache " \o fname) EXCEPT
             !.files = WriteFile(@, fname, [kind |-> "pkl", bytes |-> Dumps(data)]),
             !.keys = @ \cup {fname}]

\* mutant of has_cache: no entry is ever found
has_cache_never(m, fname) == FALSE

\* mutant of has_cache: the cache root is tested, not the file
has_cache_dir_only(m, fname) == m.cacheDir = "dir"

\* CacheMixIn.has_cache: (self.cache_root / fname).is_file()
has_cache(m, fname) == m.cacheDir = "dir" /\ is_file(m.files, fname)

\* CacheMixIn.get_cache_path: return self.cache_root / fname
\* (a path under the cache root is the file name)
get_cache_path(m, fname) == fname

\* DownloadMixIn.download:
\*   if self.path.parent.is_dir(): self._download_progress(self.path, self.url)
\*   else: raise ValueError
download(m) ==
    IF Halted(m) THEN m
    ELSE IF m.cacheDir # "dir" THEN Raise(m, "ValueError")
    ELSE IF m.net = << >> THEN [m EXCEPT !.need = TRUE]
    ELSE LET o == Head(m.net)
         IN  [Logged(m, "download") EXCEPT
                 !.files = StoreFile(@, m.path, o.f),
                 !.net = Tail(@),
                 !.err = o.err]

\* DB.process_raw_data: return pd.read_table(self.path, sep=';')
process_raw_data(m) ==
    IF Halted(m) THEN m
    ELSE LET f == ReadFile(m.files, m.path)
         IN  IF f.kind = "absent" THEN Raise(m, "FileNotFoundError")
             ELSE IF f.kind # "stream" THEN Raise(m, "ParserError")
             ELSE IF f.written = 0 THEN Raise(m, "EmptyDataError")
             ELSE [Logged(m, "process_raw_data") EXCEPT !.tmp = Table(f)]

\* mutant of load_raw_data: force_process is not looked at
load_raw_data_ignores_force_process(m) ==
    IF Halted(m) THEN m
    ELSE LET fname == m.cls
         IN  IF m.force_download \/ ~ has_cache(m, fname)
             THEN LET m1 == IF m.force_download THEN download(m) ELSE m
                      m2 == process_raw_data(m1)
                  IN  save_cache(m2, m2.tmp, fname)
             ELSE load_cache(m, fname)

\* AI4SCRDataset.load_raw_data
load_raw_data(m) ==
    IF Halted(m) THEN m
    ELSE LET fname == m.cls
         IN  IF m.force_download \/ m.force_process \/ ~ has_cache(m, fname)
             THEN LET m1 == IF m.force_download THEN download(m) ELSE m
                      m2 == process_raw_data(m1)
                  IN  save_cache(m2, m2.tmp, fname)
             ELSE load_cache(m, fname)

\* RecipeMixIn.get_recipe_fn: return self.recipes[self.recipe]
get_recipe_fn(rs, recipe) ==
    IF recipe \in DOMAIN rs THEN [ret |-> rs[recipe], err |-> NoErr]
    ELSE [ret |-> None, err |-> "KeyError"]

\* a recipe a program registers that takes a keyword argument:
\*   def shift_age(data, by=1): data['age'] = data.age + by; return data
\* kwargs = 0 stands for no keyword argument, k > 0 for by=k
shift_age(data, kwargs) ==
    [data EXCEPT !.age = @ + (IF kwargs = 0 THEN 1 ELSE kwargs)]

KwargsFn == "shift_age"

\* data = self.get_recipe_fn()(data, **self.recipe_kwargs)
apply_recipe(m) ==
    IF Halted(m) THEN m
    ELSE LET fn == get_recipe_fn(m.recipes, m.recipe)
         IN  IF fn.err # NoErr THEN Raise(m, fn.err)
             ELSE IF fn.ret = KwargsFn /\ m.tmp.t = "table"
             THEN [Logged(m, "recipe " \o fn.ret) EXCEPT
                      !.tmp = shift_age(@, m.recipe_kwargs)]
             ELSE IF m.recipe_kwargs # 0 \/ m.tmp.t # "table"
             THEN Raise(m, "TypeError")
             ELSE [Logged(m, "recipe " \o fn.ret) EXCEPT
                      !.tmp = recipe_default(@)]

\* mutant of load_recipe_data: the raw data is saved under the recipe key
load_recipe_data_caches_raw(m) ==
    IF Halted(m) THEN m
    ELSE LET fname == get_recipe_filename(m.cls, m.recipe)
         IN  IF m.force_process \/ ~ has_cache(m, fname)
             THEN LET m1 == load_raw_data(m)
                      m2 == apply_recipe(m1)
                      m3 == save_cache(m2, m1.tmp, fname)
                  IN  m3
             ELSE load_cache(m, fname)

\* mutant of load_recipe_data: the raw cache entry is saved once more after
\* the recipe has changed the table in place
load_recipe_data_resaves_raw(m) ==
    IF Halted(m) THEN m
    ELSE LET fname == get_recipe_filename(m.cls, m.recipe)
         IN  IF m.force_process \/ ~ has_cache(m, fname)
             THEN LET m1 == load_raw_data(m)
                      m2 == apply_recipe(m1)
                      m3 == save_cache(m2, m2.tmp, m.cls)
                  IN  save_cache(m3, m2.tmp, fname)
             ELSE load_cache(m, fname)

\* AI4SCRDataset.load_recipe_data
load_recipe_data(m) ==
    IF Halted(m) THEN m
    ELSE LET fname == get_recipe_filename(m.cls, m.recipe)
         IN  IF m.force_process \/ ~ has_cache(m, fname)
             THEN LET m1 == load_raw_data(m)
                      m2 == apply_recipe(m1)
                  IN  save_cache(m2, m2.tmp, fname)
             ELSE load_cache(m, fname)

\* AI4SCRDataset.setup
setup(m) ==
    IF Halted(m) THEN m
    ELSE LET m1 == IF Truthy(m.recipe) THEN load_recipe_data(m)
                   ELSE load_raw_data(m)
         IN  IF Halted(m1) THEN m1
             ELSE [Logged(m1, "data") EXCEPT !.data = m1.tmp]

\* AI4SCRDataset.__init__, lines 228-233: the recipe must be registered
ValidateRecipe(m) ==
    IF Halted(m) THEN m
    ELSE IF m.recipe # None /\ m.recipe \notin DOMAIN m.recipes
    THEN Raise(m, "KeyError")
    ELSE Logged(m, "recipe ok")

\* lines 236-240: self.cache_root = self.cache_root / self.module
\*                self.cache_root.mkdir(parents=True, exist_ok=True)
MakeRoot(m) ==
    IF Halted(m) THEN m
    ELSE IF m.cacheDir = "file" THEN Raise(m, "FileExistsError")
    ELSE [Logged(m, "mkdir") EXCEPT !.cacheDir = "dir"]

\* lines 243-254: the raw file path, the flags, self.data = None
DerivePath(m) ==
    IF Halted(m) THEN m
    ELSE IF Truthy(m.pathArg)
    THEN IF ClassPath = None THEN Raise(m, "AttributeError")
         ELSE IF ~ is_file(m.files, ClassPath) THEN Raise(m, "FileNotFoundError")
         ELSE [Logged(m, "path") EXCEPT !.path = m.pathArg]
    ELSE [Logged(m, "path") EXCEPT !.path = RawFileName(m.cls)]

\* mutant of DownloadMixIn_init: force_download is not looked at
DownloadMixIn_init_lazy(m) ==
    IF Halted(m) THEN m
    ELSE IF ~ is_file(m.files, m.path) THEN download(m)
    ELSE m

\* DownloadMixIn.__init__:
\*   if self.force_download or not self.path.is_file(): self.download()
DownloadMixIn_init(m) ==
    IF Halted(m) THEN m
    ELSE IF m.force_download \/ ~ is_file(m.files, m.path) THEN download(m)
    ELSE m

\* mutant of BaseDataset_init: setup() runs before super().__init__()
BaseDataset_init_setup_first(m) == DownloadMixIn_init(setup(m))

\* BaseDataset.__init__: super().__init__(**kwargs); self.setup()
BaseDataset_init(m) == setup(DownloadMixIn_init(m))

\* mutant of AI4SCRDataset_init: the recipe is validated after the cache
\* root is made and the path derived
AI4SCRDataset_init_validates_late(m) ==
    BaseDataset_init(ValidateRecipe(DerivePath(MakeRoot(m))))

\* AI4SCRDataset.__init__
AI4SCRDataset_init(m) ==
    BaseDataset_init(DerivePath(MakeRoot(ValidateRecipe(m))))

---------------------------------------------------------------------------
(* The calls a program makes, each run to its end.                         *)

\* the names a program registers recipes under, and the names it asks for
RegisteredNames == {"default"}
RecipeNames == RegisteredNames \cup {"shift_age"}

\* the arguments of AI4SCRDataset.__init__; recipe_kwargs = 0 stands for
\* None or {}
InitArgs ==
    [recipe : {None} \cup RecipeNames,
     recipe_kwargs : {0},
     pathArg : {None, RawFileName(DatasetName)},
     force_download : BOOLEAN,
     force_process : BOOLEAN]

\* the frame of a call on an entity with attributes a
Frame(a, path, data) ==
    [cacheDir |-> cacheDir, files |-> files, recipes |-> recipes,
     cls |-> DatasetName, recipe |-> a.recipe,
     recipe_kwargs |-> a.recipe_kwargs, pathArg |-> a.pathArg,
     force_download |-> a.force_download, force_process |-> a.force_process,
     path |-> path, data |-> data, tmp |-> NoData,
     err |-> NoErr, net |-> << >>, need |-> FALSE, log |-> << >>, keys |-> {}]

RunCall(op, m) == IF op = "init" THEN AI4SCRDataset_init(m) ELSE setup(m)

\* every way the call can end: where it reaches a download, every outcome
\* of _download_progress on the raw file as it is then
RECURSIVE Finals(_, _, _)
Finals(op, m0, net) ==
    LET r == RunCall(op, [m0 EXCEPT !.net = net])
    IN  IF r.need
        THEN UNION {Finals(op, m0, Append(net, o)) :
                        o \in DownloadOutcomes(ReadFile(r.files, r.path))}
        ELSE {r}

NoPrev == [repeat |-> FALSE]

\* a constructor call with arguments a repeats the construction of e when e
\* was constructed with the same arguments, no force flag among them, and
\* no call on e has failed since
Repeats(e, a) ==
    /\ e.pc = "ready"
    /\ e.err = NoErr
    /\ e.args = a
    /\ ~ a.force_download
    /\ ~ a.force_process

Init ==
    /\ cacheDir \in {"absent", "dir", "file"}
    /\ files = << >>
    /\ recipes = << >>
    /\ ent = NoEntity
    /\ last = NoCall
    /\ dl = IdleFrame
    /\ obs = NoObs
    /\ saved = << >>
    /\ registered = << >>
    /\ desc = NoDescriptor
    /\ tree = NoTree

\* mutant of register_recipe: the decorator forgets to return the function
register_recipe_returns_none(rs, name, recipe) ==
    [recipes |-> DictSet(rs, name, recipe), ret |-> None]

\* RecipeMixIn.register_recipe(name)(recipe):
\*   cls.recipes[name] = recipe; return recipe
register_recipe(rs, name, recipe) ==
    [recipes |-> DictSet(rs, name, recipe), ret |-> recipe]

Register ==
    \E name \in RegisteredNames, fn \in RecipeFns :
        LET r == register_recipe(recipes, name, fn)
        IN  /\ recipes' = r.recipes
            /\ last' = [op |-> "register_recipe"]
            /\ UNCHANGED <<cacheDir, files, ent, dl, obs, saved, registered, desc, tree>>

\* DB(path, recipe, recipe_kwargs, force_download, force_process)
Construct ==
    \E a \in InitArgs :
      \E r \in Finals("init", Frame(a, None, NoData), << >>) :
        /\ cacheDir' = r.cacheDir
        /\ files' = r.files
        /\ ent' = [pc |-> IF r.err = NoErr THEN "ready" ELSE "failed",
                   op |-> "init", args |-> a, path |-> r.path,
                   data |-> r.data, err |-> r.err,
                   log |-> r.log, keys |-> r.keys,
                   dirTouched |-> (r.cacheDir # cacheDir),
                   filesTouched |-> (r.files # files),
                   prev |-> IF Repeats(ent, a)
                            THEN [repeat |-> TRUE, path |-> ent.path,
                                  data |-> ent.data, keys |-> ent.keys]
                            ELSE NoPrev]
        /\ last' = [op |-> "init"]
        /\ UNCHANGED <<recipes, dl, obs, saved, registered, desc, tree>>

\* entity.setup() called again on a constructed entity
CallSetup ==
    /\ ent.pc = "ready"
    /\ \E r \in Finals("setup", Frame(ent.args, ent.path, ent.data), << >>) :
        /\ cacheDir' = r.cacheDir
        /\ files' = r.files
        /\ ent' = [ent EXCEPT !.op = "setup", !.data = r.data, !.err = r.err,
                              !.log = r.log, !.keys = r.keys,
                              !.dirTouched = (r.cacheDir # cacheDir),
                              !.filesTouched = (r.files # files),
                              !.prev = IF ent.err = NoErr
                                       THEN [repeat |-> TRUE, path |-> ent.path,
                                             data |-> ent.data, keys |-> ent.keys]
                                       ELSE NoPrev]
        /\ last' = [op |-> "setup"]
        /\ UNCHANGED <<recipes, dl, obs, saved, registered, desc, tree>>

Next ==
    \/ Register
    \/ Construct
    \/ CallSetup

Spec == Init /\ [][Next]_vars

---------------------------------------------------------------------------
(* The calls of a program that registers a recipe under the empty name     *)
(* too: RecipeMixIn.register_recipe takes any string as a name.            *)

EmptyName == ""

NamedRecipes == {"default", EmptyName}

\* the arguments of the constructor calls of such a program
NamedArgs ==
    [recipe : {None} \cup NamedRecipes,
     recipe_kwargs : {0},
     pathArg : {None},
     force_download : {FALSE},
     force_process : BOOLEAN]

InitNames ==
    /\ cacheDir \in {"absent", "dir"}
    /\ files = << >>
    /\ recipes = << >>
    /\ ent = NoEntity
    /\ last = NoCall
    /\ dl = IdleFrame
    /\ obs = NoObs
    /\ saved = << >>
    /\ registered = << >>
    /\ desc = NoDescriptor
    /\ tree = NoTree

\* @RecipeMixIn.register_recipe(name) with name '' or 'default'
RegisterNamed ==
    \E name \in NamedRecipes, fn \in RecipeFns :
        LET r == register_recipe(recipes, name, fn)
        IN  /\ recipes' = r.recipes
            /\ last' = [op |-> "register_recipe"]
            /\ UNCHANGED <<cacheDir, files, ent, dl, obs, saved, registered, desc, tree>>

\* DB(recipe=..., force_process=...)
ConstructNamed ==
    \E a \in NamedArgs :
      \E r \in Finals("init", Frame(a, None, NoData), << >>) :
        /\ cacheDir' = r.cacheDir
        /\ files' = r.files
        /\ ent' = [pc |-> IF r.err = NoErr THEN "ready" ELSE "failed",
                   op |-> "init", args |-> a, path |-> r.path,
                   data |-> r.data, err |-> r.err,
                   log |-> r.log, keys |-> r.keys,
                   dirTouched |-> (r.cacheDir # cacheDir),
                   filesTouched |-> (r.files # files),
                   prev |-> IF Repeats(ent, a)
                            THEN [repeat |-> TRUE, path |-> ent.path,
                                  data |-> ent.data, keys |-> ent.keys]
                            ELSE NoPrev]
        /\ last' = [op |-> "init"]
        /\ UNCHANGED <<recipes, dl, obs, saved, registered, desc, tree>>

NextNames ==
    \/ RegisterNamed
    \/ ConstructNamed
    \/ CallSetup

SpecNames == InitNames /\ [][NextNames]_vars

---------------------------------------------------------------------------
(* The calls of a program whose recipe takes a keyword argument, passed    *)
(* through recipe_kwargs.                                                  *)

\* the values of by in recipe_kwargs={'by': ...}; 0: no recipe_kwargs
KwargsValues == {0, 1, 2}

KwargsArgs ==
    [recipe : {None, KwargsFn},
     recipe_kwargs : KwargsValues,
     pathArg : {None},
     force_download : {FALSE},
     force_process : BOOLEAN]

\* the module registered shift_age under its own name when it was imported
InitKwargs ==
    /\ cacheDir \in {"absent", "dir"}
    /\ files = << >>
    /\ recipes = DictSet(<< >>, KwargsFn, KwargsFn)
    /\ ent = NoEntity
    /\ last = NoCall
    /\ dl = IdleFrame
    /\ obs = NoObs
    /\ saved = << >>
    /\ registered = << >>
    /\ desc = NoDescriptor
    /\ tree = NoTree

\* DB(recipe=..., recipe_kwargs=..., force_process=...)
ConstructKwargs ==
    \E a \in KwargsArgs :
      \E r \in Finals("init", Frame(a, None, NoData), << >>) :
        /\ cacheDir' = r.cacheDir
        /\ files' = r.files
        /\ ent' = [pc |-> IF r.err = NoErr THEN "ready" ELSE "failed",
                   op |-> "init", args |-> a, path |-> r.path,
                   data |-> r.data, err |-> r.err,
                   log |-> r.log, keys |-> r.keys,
                   dirTouched |-> (r.cacheDir # cacheDir),
                   filesTouched |-> (r.files # files),
                   prev |-> IF Repeats(ent, a)
                            THEN [repeat |-> TRUE, path |-> ent.path,
                                  data |-> ent.data, keys |-> ent.keys]
                            ELSE NoPrev]
        /\ last' = [op |-> "init"]
        /\ UNCHANGED <<recipes, dl, obs, saved, registered, desc, tree>>

NextKwargs ==
    \/ ConstructKwargs
    \/ CallSetup

SpecKwargs == InitKwargs /\ [][NextKwargs]_vars

---------------------------------------------------------------------------
(* The cache store on its own: save_cache, load_cache and has_cache called *)
(* on an entity, with any key and value.                                   *)

CacheKeys ==
    {DatasetName, get_recipe_filename(DatasetName, "default"),
     RawFileName(DatasetName)}

SmallStream == [kind |-> "stream", total |-> 1, written |-> 1]

CacheValues ==
    {NoData, Table(SmallStream), recipe_default(Table(SmallStream)), Unpicklable}

NoArgs ==
    [recipe |-> None, recipe_kwargs |-> 0, pathArg |-> None,
     force_download |-> FALSE, force_process |-> FALSE]

CacheFrame == Frame(NoArgs, RawFileName(DatasetName), NoData)

InitCache ==
    /\ \/ cacheDir = "absent" /\ files = << >>
       \/ cacheDir = "dir"
          /\ files \in {<< >>, WriteFile(<< >>, RawFileName(DatasetName), SmallStream)}
    /\ recipes = << >>
    /\ ent = NoEntity
    /\ last = NoCall
    /\ dl = IdleFrame
    /\ obs = NoObs
    /\ saved = << >>
    /\ registered = << >>
    /\ desc = NoDescriptor
    /\ tree = NoTree

CallSaveCache ==
    \E key \in CacheKeys, v \in CacheValues :
        LET r == save_cache(CacheFrame, v, key)
        IN  /\ files' = r.files
            /\ cacheDir' = r.cacheDir
            /\ last' = [op |-> "save_cache", key |-> key, val |-> v,
                        err |-> r.err]
            /\ saved' = DictSet(saved, key, [ok |-> r.err = NoErr, val |-> v])
            /\ UNCHANGED <<recipes, ent, dl, obs, registered, desc, tree>>

CallLoadCache ==
    \E key \in CacheKeys :
        LET r == load_cache(CacheFrame, key)
        IN  /\ files' = r.files
            /\ cacheDir' = r.cacheDir
            /\ last' = [op |-> "load_cache", key |-> key,
                        val |-> IF r.err = NoErr THEN r.tmp ELSE NoData,
                        err |-> r.err]
            /\ UNCHANGED <<recipes, ent, dl, obs, saved, registered, desc, tree>>

CallHasCache ==
    \E key \in CacheKeys :
        /\ last' = [op |-> "has_cache", key |-> key,
                    has |-> has_cache(CacheFrame, key)]
        /\ UNCHANGED <<cacheDir, files, recipes, ent, dl, obs, saved, registered, desc, tree>>

CallGetCachePath ==
    \E key \in CacheKeys :
        /\ last' = [op |-> "get_cache_path", key |-> key,
                    path |-> get_cache_path(CacheFrame, key)]
        /\ UNCHANGED <<cacheDir, files, recipes, ent, dl, obs, saved, registered, desc, tree>>

NextCache ==
    \/ MakeCacheRoot
    \/ CallSaveCache
    \/ CallLoadCache
    \/ CallHasCache
    \/ CallGetCachePath

SpecCache == InitCache /\ [][NextCache]_vars

---------------------------------------------------------------------------
(* The recipe registry on its own.                                         *)

InitRegistry ==
    /\ cacheDir = "absent"
    /\ files = << >>
    /\ recipes = << >>
    /\ ent = NoEntity
    /\ last = NoCall
    /\ dl = IdleFrame
    /\ obs = NoObs
    /\ saved = << >>
    /\ registered = << >>
    /\ desc = NoDescriptor
    /\ tree = NoTree

RegistryNames == RecipeNames \cup {"norm"}

\* @RecipeMixIn.register_recipe(name) applied to a function
RegisterRecipe ==
    \E name \in RegistryNames, fn \in RecipeFns :
        LET r == register_recipe(recipes, name, fn)
        IN  /\ recipes' = r.recipes
            /\ last' = [op |-> "register_recipe", name |-> name, fn |-> fn,
                        ret |-> r.ret, err |-> NoErr]
            /\ registered' =
                 DictSet(registered, name,
                         [first |-> IF name \in DOMAIN registered
                                    THEN registered[name].first ELSE fn,
                          latest |-> fn])
            /\ UNCHANGED <<cacheDir, files, ent, dl, obs, saved, desc, tree>>

\* get_recipe_fn() called on an instance whose recipe attribute is `name`
CallGetRecipeFn ==
    \E name \in RegistryNames \cup {None} :
        LET r == get_recipe_fn(recipes, name)
        IN  /\ last' = [op |-> "get_recipe_fn", name |-> name, fn |-> None,
                        ret |-> r.ret, err |-> r.err]
            /\ UNCHANGED <<cacheDir, files, recipes, ent, dl, obs, saved, registered, desc, tree>>

NextRegistry ==
    \/ RegisterRecipe
    \/ CallGetRecipeFn

SpecRegistry == InitRegistry /\ [][NextRegistry]_vars

---------------------------------------------------------------------------
(* The dataset descriptor DataSet of data.py.  A text argument is a        *)
(* sequence of characters; an attribute made from it is a string.          *)

\* the characters of a text, joined
RECURSIVE Str(_)
Str(chars) == IF chars = << >> THEN "" ELSE Head(chars) \o Str(Tail(chars))

\* str.lower() of one character
LowerChar(c) ==
    CASE c = "A" -> "a"
      [] c = "B" -> "b"
      [] c = "D" -> "d"
      [] c = "E" -> "e"
      [] c = "S" -> "s"
      [] OTHER -> c

\* name.lower()
lower(chars) == [i \in 1..Len(chars) |-> LowerChar(chars[i])]

IsSpace(c) == c \in {" ", "\t"}

\* str.split(): the words between runs of whitespace
RECURSIVE SplitFrom(_, _, _, _)
SplitFrom(chars, i, word, words) ==
    IF i > Len(chars)
    THEN IF word = "" THEN words ELSE Append(words, word)
    ELSE IF IsSpace(chars[i])
    THEN SplitFrom(chars, i + 1, "", IF word = "" THEN words ELSE Append(words, word))
    ELSE SplitFrom(chars, i + 1, word \o chars[i], words)

split(chars) == SplitFrom(chars, 1, "", << >>)

\* '_'.join(words)
RECURSIVE join(_, _)
join(sep, words) ==
    IF words = << >> THEN ""
    ELSE IF Len(words) = 1 THEN words[1]
    ELSE words[1] \o sep \o join(sep, Tail(words))

\* mutant of standardize_name: the text is not lower-cased
standardize_name_keeps_case(chars) == join("_", split(chars))

\* _standardize_names of a str: '_'.join(name.lower().split())
standardize_name(chars) == join("_", split(lower(chars)))

\* path / name
JoinPath(path, name) == path \o "/" \o name

\* ROOT = Path('~/.ai4scr/datasets/').expanduser()
ROOT == "~/.ai4scr/datasets"

\* the texts a descriptor is made with
DescNames == {<<"A", " ", "b">>, <<"b">>}
DescModule == <<"D", "e", "m", "o">>
DescExtensions ==
    {[t |-> "str", s |-> <<"c">>], [t |-> "str", s |-> <<".", "c">>],
     [t |-> "str", s |-> << >>], [t |-> "NoneType", s |-> << >>]}

\* the paths of the model: the default directory of the module and two
\* other places
TreePaths == {JoinPath(ROOT, standardize_name(DescModule)), "/data", "/tmp"}

\* the values `path` is given: a str or a Path naming one of the places, an
\* int, None
PathValues ==
    [t : {"str", "Path"}, p : TreePaths]
        \cup {[t |-> "int", p |-> ""], [t |-> "NoneType", p |-> ""]}

\* isinstance(value, get_args(PathLike))
IsPathLike(value) == value.t \in {"str", "Path"}

\* Path(value).is_dir()
is_dir(tr, path) == path \in DOMAIN tr /\ tr[path] = "dir"

\* mutant of path_setter: the derived raw-file path is not recomputed
path_setter_keeps_fpath(d, tr, value) ==
    IF IsPathLike(value)
    THEN IF is_dir(tr, value.p)
         THEN [obj |-> [d EXCEPT !.path = value.p], err |-> NoErr]
         ELSE [obj |-> d, err |-> "ValueError"]
    ELSE [obj |-> d, err |-> "TypeError"]

\* @path.setter def path(self, value)
path_setter(d, tr, value) ==
    IF IsPathLike(value)
    THEN IF is_dir(tr, value.p)
         THEN [obj |-> [d EXCEPT !.path = value.p,
                                 !.fpath = JoinPath(value.p, d.name \o d.extension)],
               err |-> NoErr]
         ELSE [obj |-> d, err |-> "ValueError"]
    ELSE [obj |-> d, err |-> "TypeError"]

\* DataSet.__init__(name, module, url, extension, description, path)
DataSet_init(tr, name, module, extension, path) ==
    LET failed(e) == [obj |-> NoDescriptor, tree |-> tr, err |-> e]
        mod == standardize_name(module)
    IN  IF extension.t # "str" THEN failed("TypeError")
        ELSE IF extension.s = << >> THEN failed("IndexError")
        ELSE
        LET ext == IF extension.s[1] = "." THEN Str(extension.s)
                   ELSE "." \o Str(extension.s)
            d == [made |-> TRUE, name |-> standardize_name(name),
                  module |-> mod, extension |-> ext, path |-> "", fpath |-> ""]
            default == JoinPath(ROOT, mod)
        IN  IF path.t = "NoneType"
            THEN \* path = ROOT / self.module; path.mkdir(parents=True, exist_ok=True)
                 IF tr[default] = "file" THEN failed("FileExistsError")
                 ELSE LET tr1 == [tr EXCEPT ![default] = "dir"]
                          r == path_setter(d, tr1, [t |-> "Path", p |-> default])
                      IN  [obj |-> r.obj, tree |-> tr1, err |-> r.err]
            ELSE \* path = Path(path)
                 IF ~ IsPathLike(path) THEN failed("TypeError")
                 ELSE LET r == path_setter(d, tr, [t |-> "Path", p |-> path.p])
                      IN  IF r.err # NoErr THEN failed(r.err)
                          ELSE [obj |-> [r.obj EXCEPT
                                           !.fpath = JoinPath(r.obj.path,
                                                        r.obj.name \o r.obj.extension)],
                                tree |-> tr, err |-> NoErr]

InitDescriptor ==
    /\ cacheDir = "absent"
    /\ files = << >>
    /\ recipes = << >>
    /\ ent = NoEntity
    /\ last = NoCall
    /\ dl = IdleFrame
    /\ obs = NoObs
    /\ saved = << >>
    /\ registered = << >>
    /\ desc = NoDescriptor
    /\ tree \in [TreePaths -> {"absent", "dir"}]

\* DataSet(name, module, url, extension, path=path)
NewDataSet ==
    \E name \in DescNames, extension \in DescExtensions, path \in PathValues :
        LET r == DataSet_init(tree, name, DescModule, extension, path)
        IN  /\ desc' = IF r.err = NoErr THEN r.obj ELSE desc
            /\ tree' = r.tree
            /\ last' = [op |-> "DataSet", value |-> path, err |-> r.err]
            /\ UNCHANGED <<cacheDir, files, recipes, ent, dl, obs, saved, registered>>

\* dataset.path = value
SetPath ==
    /\ desc.made
    /\ \E value \in PathValues :
        LET r == path_setter(desc, tree, value)
        IN  /\ desc' = r.obj
            /\ last' = [op |-> "set_path", value |-> value, err |-> r.err]
            /\ UNCHANGED <<cacheDir, files, recipes, ent, dl, obs, saved,
                           registered, tree>>

\* something outside the program makes or removes a directory or a file
ChangeTree ==
    \E path \in TreePaths, kind \in {"absent", "dir", "file"} :
        /\ tree[path] # kind
        /\ tree' = [tree EXCEPT ![path] = kind]
        /\ last' = [op |-> "fs"]
        /\ UNCHANGED <<cacheDir, files, recipes, ent, dl, obs, saved,
                       registered, desc>>

NextDescriptor ==
    \/ NewDataSet
    \/ SetPath
    \/ ChangeTree

SpecDescriptor == InitDescriptor /\ [][NextDescriptor]_vars

---------------------------------------------------------------------------
(* The normalisation of a descriptor: DataSet(name, module, url,           *)
(* extension) with no path, made from any short text, and made again from  *)
(* the attributes of the first.                                            *)

TextChars == {"A", "b", " ", "_"}

\* every text of at most n characters
Texts(n) == UNION {[1..k -> TextChars] : k \in 0..n}

ExampleName == <<"E", "x", "a", "m", "p", "l", "e", " ", "S", "e", "t">>
ExampleNameNorm == <<"e", "x", "a", "m", "p", "l", "e", "_", "s", "e", "t">>

NormNames == Texts(MaxTextLen) \cup {ExampleName, ExampleNameNorm}

NormModules ==
    {DescModule, <<"d", "e", "m", "o">>, <<" ", "D", " ", "\t", "b">>,
     <<"d", "_", "b">>}

NormExtensions ==
    DescExtensions
        \cup {[t |-> "str", s |-> <<"c", "s", "v">>],
              [t |-> "str", s |-> <<".", "c", "s", "v">>],
              [t |-> "str", s |-> <<".">>]}

\* ROOT exists; no directory of a module does yet
NormTree ==
    [path \in {JoinPath(ROOT, standardize_name(m)) : m \in NormModules} |-> "absent"]

NoPath == [t |-> "NoneType", p |-> ""]

InitNorm ==
    /\ cacheDir = "absent"
    /\ files = << >>
    /\ recipes = << >>
    /\ ent = NoEntity
    /\ last \in [op : {"args"}, name : NormNames, module : NormModules,
                 extension : NormExtensions]
    /\ dl = IdleFrame
    /\ obs = NoObs
    /\ saved = << >>
    /\ registered = << >>
    /\ desc = NoDescriptor
    /\ tree = NormTree

\* DataSet(name, module, url, extension)
Describe ==
    /\ last.op = "args"
    /\ LET r == DataSet_init(tree, last.name, last.module, last.extension, NoPath)
       IN  /\ desc' = r.obj
           /\ tree' = r.tree
           /\ last' = [last EXCEPT !.op = IF r.err = NoErr THEN "made" ELSE r.err]
    /\ UNCHANGED <<cacheDir, files, recipes, ent, dl, obs, saved, registered>>

\* DataSet(d.name, d.module, url, d.extension) for the descriptor d made first
DescribeAgain ==
    /\ last.op = "made"
    /\ \E name \in NormNames, module \in NormModules, extension \in NormExtensions :
        /\ Str(name) = desc.name
        /\ Str(module) = desc.module
        /\ extension.t = "str"
        /\ Str(extension.s) = desc.extension
        /\ LET r == DataSet_init(tree, name, module, extension, NoPath)
           IN  /\ desc' = r.obj
               /\ tree' = r.tree
               /\ last' = [op |-> "again", name |-> name, module |-> module,
                           extension |-> extension, first |-> desc.fpath,
                           err |-> r.err]
    /\ UNCHANGED <<cacheDir, files, recipes, ent, dl, obs, saved, registered>>

NextNorm ==
    \/ Describe
    \/ DescribeAgain

SpecNorm == InitNorm /\ [][NextNorm]_vars

---------------------------------------------------------------------------
(* The file names of two entities that share a cache root (classes of the  *)
(* same module), each with a recipe.                                       *)

\* names of AI4SCRDataset subclasses and of registered recipes
ClassNames == {"DB", "A", "A_b", "A_raw"}
SharedRecipeNames == {"default", "c", "b_c"}

\* load_raw_data: fname = self.dataset_name
raw_cache_name(cls) == cls

\* the files an entity of class cls with the recipe reads and writes under
\* the cache root
EntityFiles(cls, recipe) ==
    [raw |-> get_cache_path([cls |-> cls], RawFileName(cls)),
     cache |-> raw_cache_name(cls),
     recipe |-> get_recipe_filename(cls, recipe)]

InitFileNames ==
    /\ cacheDir = "dir"
    /\ files = << >>
    /\ recipes = << >>
    /\ ent = NoEntity
    /\ last \in [op : {"classes"}, cls1 : ClassNames, recipe1 : SharedRecipeNames,
                 cls2 : ClassNames, recipe2 : SharedRecipeNames]
    /\ dl = IdleFrame
    /\ obs = NoObs
    /\ saved = << >>
    /\ registered = << >>
    /\ desc = NoDescriptor
    /\ tree = NoTree

\* an entity of each class is constructed with its recipe: the names of the
\* files each uses
NameFiles ==
    /\ last.op = "classes"
    /\ last' = [op |-> "named", cls1 |-> last.cls1, recipe1 |-> last.recipe1,
                cls2 |-> last.cls2, recipe2 |-> last.recipe2,
                files1 |-> EntityFiles(last.cls1, last.recipe1),
                files2 |-> EntityFiles(last.cls2, last.recipe2)]
    /\ UNCHANGED <<cacheDir, files, recipes, ent, dl, obs, saved, registered,
                   desc, tree>>

NextFileNames ==
    \/ NameFiles

SpecFileNames == InitFileNames /\ [][NextFileNames]_vars

---------------------------------------------------------------------------
(* Properties *)

\* the events of a call's log
Events(log) == {log[i] : i \in 1..Len(log)}

\* C1: when a fetch that failed at any point of the transfer has ended, the
\* error has been raised to the caller and the destination file does not
\* exist (has_cache_raw is false), whether or not a file was there before.
C1_FailedFetchLeavesNoFile ==
    (dl.err \in Failures /\ ~ InTry(dl) /\ dl.pc # "except") =>
        /\ dl.pc = "raised"
        /\ ~ is_file(files, FetchPath)
        /\ ~ has_cache_raw(files, FetchPath)

\* a fetch onto an existing file was interrupted after a block was written
C1_Witness ==
    /\ dl.pc = "raised"
    /\ dl.err = "KeyboardInterrupt"
    /\ dl.hadFile
    /\ dl.midway

\* C2: every presence check on the raw file that answers true is made on a
\* file that holds the whole content of a transfer.
C2_PresentFileIsComplete ==
    obs.present => Complete(obs.file)

\* C3: a construction that repeats a successful one (same arguments, no
\* force flag) succeeds with the same raw-file path and cache file names,
\* writes no file, and does nothing but load cache entries: no download,
\* no process_raw_data, no recipe call.
C3_RepeatedConstructionIsCacheHit ==
    (ent.pc # "none" /\ ent.op = "init" /\ ent.prev.repeat) =>
        /\ ent.pc = "ready"
        /\ ent.path = ent.prev.path
        /\ ent.keys \subseteq ent.prev.keys
        /\ ~ ent.filesTouched
        /\ Events(ent.log) \subseteq
             {"recipe ok", "mkdir", "path", "data"}
                \cup {"load_cache " \o k : k \in ent.prev.keys}

\* a second construction with the recipe 'default' has loaded its data
C3_Witness ==
    /\ ent.pc = "ready"
    /\ ent.op = "init"
    /\ ent.prev.repeat
    /\ ent.args.recipe = "default"
    /\ "load_cache " \o get_recipe_filename(DatasetName, "default") \in Events(ent.log)

\* C4: setup run a second time without force flags (setup() called again,
\* or a construction repeated) succeeds with the same data as the first.
C4_SetupIdempotent ==
    (/\ ent.pc # "none"
     /\ ent.prev.repeat
     /\ ~ ent.args.force_download
     /\ ~ ent.args.force_process) =>
        /\ ent.err = NoErr
        /\ ent.data = ent.prev.data

\* setup() was called again on an entity with recipe data
C4_Witness ==
    /\ ent.pc = "ready"
    /\ ent.op = "setup"
    /\ ent.prev.repeat
    /\ ~ ent.args.force_download
    /\ ~ ent.args.force_process
    /\ ent.data.t = "table"
    /\ ent.data.age = 1

\* C5: a constructor call whose recipe is not registered raises KeyError
\* and has no effect: no directory, no download, no processing, no file.
C5_UnknownRecipeHasNoEffect ==
    (/\ ent.pc # "none"
     /\ ent.op = "init"
     /\ ent.args.recipe # None
     /\ ent.args.recipe \notin DOMAIN recipes) =>
        /\ ent.pc = "failed"
        /\ ent.err = "KeyError"
        /\ ent.log = << >>
        /\ ~ ent.dirTouched
        /\ ~ ent.filesTouched

\* the call failed with force_download set and the cache root still absent
C5_Witness ==
    /\ ent.pc = "failed"
    /\ ent.err = "KeyError"
    /\ ent.args.force_download
    /\ cacheDir = "absent"

\* C6: load_cache(key) after a completed save_cache(v, key), the latest
\* save to that key, succeeds and returns v.
C6_CacheRoundTrip ==
    (/\ last.op = "load_cache"
     /\ last.key \in DOMAIN saved
     /\ saved[last.key].ok) =>
        /\ last.err = NoErr
        /\ last.val = saved[last.key].val

\* a table was loaded back from the key of the raw file
C6_Witness ==
    /\ last.op = "load_cache"
    /\ last.key = RawFileName(DatasetName)
    /\ last.err = NoErr
    /\ last.val = recipe_default(Table(SmallStream))

\* a file that pickle.load cannot read an object from
Corrupt(f) ==
    \/ f.kind = "stream"
    \/ f.kind = "pkl" /\ f.bytes = << >>

\* C7: has_cache(key) is true exactly when the file exists under the cache
\* root; load_cache(key) raises FileNotFoundError exactly when has_cache is
\* false; a load of corrupt bytes raises and returns no value.
C7_HasAndLoad ==
    /\ last.op = "has_cache" =>
          (last.has <=> (cacheDir = "dir" /\ last.key \in DOMAIN files))
    /\ last.op = "load_cache" =>
          /\ (last.err = "FileNotFoundError") <=> (last.key \notin DOMAIN files)
          /\ Corrupt(ReadFile(files, last.key)) =>
                /\ last.err \in {"EOFError", "UnpicklingError"}
                /\ last.val = NoData

\* the file left by a failed save was loaded
C7_Witness ==
    /\ last.op = "load_cache"
    /\ last.err = "EOFError"
    /\ last.key \in DOMAIN saved
    /\ ~ saved[last.key].ok

\* C8: every registered name maps to the function of its first
\* registration (a second registration of the name is rejected).
C8_FirstRegistrationKept ==
    \A name \in DOMAIN recipes :
        name \in DOMAIN registered => recipes[name] = registered[name].first

\* C9: register_recipe(name)(f) returns f and maps name to f; get_recipe_fn
\* returns the function the name was registered with last and raises
\* KeyError for a name never registered; no name leaves the registry.
C9_RegistryContract ==
    /\ last.op = "register_recipe" =>
          /\ last.ret = last.fn
          /\ last.err = NoErr
          /\ last.name \in DOMAIN recipes
          /\ recipes[last.name] = last.fn
    /\ last.op = "get_recipe_fn" =>
          IF last.name \in DOMAIN registered
          THEN last.err = NoErr /\ last.ret = registered[last.name].latest
          ELSE last.err = "KeyError"
    /\ DOMAIN registered \subseteq DOMAIN recipes

\* a registered function was resolved
C9_Witness ==
    /\ last.op = "get_recipe_fn"
    /\ last.name = "default"
    /\ last.err = NoErr
    /\ last.ret = "DB.recipe_default"

\* the steps of the constructor, in their order
InitSteps == <<"recipe ok", "mkdir", "path">>

\* C10: the constructor validates the recipe, makes the cache root, derives
\* the raw-file path and runs setup, in this order; a step that fails ends
\* the call, with no effect of a later step.
C10_StepsInOrder ==
    (ent.pc # "none" /\ ent.op = "init") =>
        /\ \A i \in 1..Len(ent.log) :
              IF i <= 3 THEN ent.log[i] = InitSteps[i]
              ELSE ent.log[i] \notin Events(InitSteps)
        /\ Len(ent.log) < 2 => ~ ent.dirTouched
        /\ Len(ent.log) < 3 => ~ ent.filesTouched /\ ent.path = None
        /\ ent.err # NoErr =>
              /\ ent.pc = "failed"
              /\ ent.data = NoData
              /\ "data" \notin Events(ent.log)
        /\ ent.err \in Failures =>
              /\ ent.log[Len(ent.log)] = "download"
              /\ ~ is_file(files, ent.path)
        /\ ent.err = NoErr => ent.log[Len(ent.log)] = "data"

\* the download of the constructor failed after the first three steps
C10_Witness ==
    /\ ent.pc = "failed"
    /\ ent.op = "init"
    /\ ent.err \in Failures
    /\ ent.log = <<"recipe ok", "mkdir", "path", "download">>

\* a step that is a constructor call run to its end: the state before the
\* step is what the call found, ent' is the entity it made
ConstructStep == last'.op = "init"

\* C11: a constructor call that reaches the path step with a path supplied
\* takes that path as the raw-file path and goes on if the path is a file,
\* and raises FileNotFoundError if it is not; with no path supplied the
\* raw-file path is <class name>_raw under the cache root.
C11_SuppliedPath ==
    [][(ConstructStep /\ Len(ent'.log) >= 2) =>
          IF Truthy(ent'.args.pathArg)
          THEN IF is_file(files, ent'.args.pathArg)
               THEN /\ ent'.path = ent'.args.pathArg
                    /\ Len(ent'.log) >= 3
               ELSE ent'.err = "FileNotFoundError"
          ELSE ent'.path = RawFileName(DatasetName)]_vars

\* C12: download() tests the parent directory of the destination first: if
\* it is not a directory the call raises ValueError, opens no connection and
\* leaves the directory and the files as they are; the transfer starts only
\* when the parent directory exists.
C12_DownloadPrecondition ==
    [][(dl' # dl /\ ~ InTry(dl) /\ dl.pc # "except") =>
          IF cacheDir = "dir"
          THEN dl'.pc = "urlopen"
          ELSE /\ dl'.pc = "invalid"
               /\ dl'.err = "ValueError"
               /\ dl'.total = 0
               /\ UNCHANGED <<cacheDir, files>>]_vars

\* download() was refused and nothing exists under the cache root
C12_Witness ==
    /\ dl.pc = "invalid"
    /\ dl.err = "ValueError"
    /\ cacheDir = "absent"
    /\ files = << >>

\* C13: a constructor call with force_download set that reaches the fetch
\* step (valid recipe, cache root made, path derived) performs a download
\* as its next step, whatever files and cache entries exist and whether or
\* not a recipe is selected.
C13_ForcedFetch ==
    (/\ ent.pc # "none"
     /\ ent.op = "init"
     /\ ent.args.force_download
     /\ Len(ent.log) >= 3) =>
        /\ Len(ent.log) >= 4
        /\ ent.log[4] = "download"

\* a forced construction fetched although its data came from the recipe cache
C13_Witness ==
    /\ ent.pc = "ready"
    /\ ent.op = "init"
    /\ ent.args.force_download
    /\ ent.args.recipe = "default"
    /\ "download" \in Events(ent.log)
    /\ "load_cache " \o get_recipe_filename(DatasetName, "default") \in Events(ent.log)
    /\ "process_raw_data" \notin Events(ent.log)

\* the request with arguments a is not satisfied by the cache entries in fs:
\* the raw data has to be made from the raw file
RawDataNeeded(fs, a) ==
    IF Truthy(a.recipe) /\ ~ a.force_process
          /\ is_file(fs, get_recipe_filename(DatasetName, a.recipe))
    THEN FALSE
    ELSE a.force_process \/ ~ is_file(fs, DatasetName)

\* C14: a constructor call without force_download performs a download only
\* when the raw file is missing and the raw data is needed; a call whose
\* data comes from existing cache entries performs none.
C14_LazyFetch ==
    [][(/\ ConstructStep
        /\ ~ ent'.args.force_download
        /\ "download" \in Events(ent'.log)) =>
            /\ ~ is_file(files, ent'.path)
            /\ RawDataNeeded(files, ent'.args)]_vars

\* a step that is a constructor call or a setup() call run to its end
SetupStep == last'.op \in {"init", "setup"}

\* the call with arguments a, finding the files fs, has to determine the raw
\* data: no recipe is selected, or the recipe data has to be computed
RawDetermined(fs, a) ==
    \/ ~ Truthy(a.recipe)
    \/ a.force_process
    \/ ~ is_file(fs, get_recipe_filename(DatasetName, a.recipe))

\* the raw cache entry is to be loaded
RawCacheHit(fs, a) ==
    /\ is_file(fs, DatasetName)
    /\ ~ a.force_download
    /\ ~ a.force_process

\* C15: a call that determines the raw data loads the raw cache entry,
\* without process_raw_data, exactly when the entry exists and no force flag
\* is set; otherwise it calls process_raw_data and saves the result under the
\* class name as the next thing it does.
C15_RawMemoization ==
    [][SetupStep =>
          LET log == ent'.log
              a == ent'.args
              loaded == "load_cache " \o DatasetName \in Events(log)
              processed == "process_raw_data" \in Events(log)
          IN  /\ loaded => RawCacheHit(files, a) /\ ~ processed
              /\ processed => ~ RawCacheHit(files, a)
              /\ \A i \in 1..Len(log) :
                    log[i] = "process_raw_data" =>
                        /\ i < Len(log)
                        /\ log[i + 1] = "save_cache " \o DatasetName
              /\ (ent'.err = NoErr /\ RawDetermined(files, a)) =>
                    /\ loaded <=> RawCacheHit(files, a)
                    /\ processed <=> ~ RawCacheHit(files, a)
              /\ (ent'.err = NoErr /\ ~ RawDetermined(files, a)) =>
                    ~ loaded /\ ~ processed]_vars

\* setup() with force_process recomputed a raw cache entry that existed
C15_Witness ==
    /\ ent.pc = "ready"
    /\ ent.op = "setup"
    /\ ent.err = NoErr
    /\ ent.args.recipe = None
    /\ ent.args.force_process
    /\ ~ ent.args.force_download
    /\ ent.log = <<"process_raw_data", "save_cache " \o DatasetName, "data">>

\* a recipe is requested: the recipe argument is not None
RecipeRequested(a) == a.recipe # None

\* the recipe cache entry is to be loaded
RecipeCacheHit(fs, a) ==
    /\ is_file(fs, get_recipe_filename(DatasetName, a.recipe))
    /\ ~ a.force_process

\* the places of a log where a recipe function is invoked
RecipeCalls(log) ==
    {i \in 1..Len(log) : log[i] \in {"recipe " \o fn : fn \in RecipeFns}}

\* C16: a successful call on an entity with a recipe requested loads the
\* recipe cache entry, invoking no recipe function, exactly when the entry
\* exists and force_process is not set; otherwise it invokes the function
\* the registry holds for the recipe exactly once, saves the result under
\* the recipe's cache file name and takes it as the data; either way the age
\* column of the data is that of the raw data plus 1.
C16_RecipeMemoization ==
    [][(SetupStep /\ ent'.err = NoErr /\ RecipeRequested(ent'.args)) =>
          LET log == ent'.log
              a == ent'.args
              key == get_recipe_filename(DatasetName, a.recipe)
              loaded == "load_cache " \o key \in Events(log)
              calls == RecipeCalls(log)
          IN  /\ loaded <=> RecipeCacheHit(files, a)
              /\ loaded => calls = {}
              /\ ~ loaded =>
                    /\ Cardinality(calls) = 1
                    /\ \A i \in calls :
                          /\ log[i] = "recipe " \o recipes[a.recipe]
                          /\ i + 2 = Len(log)
                          /\ log[i + 1] = "save_cache " \o key
                          /\ log[i + 2] = "data"
              /\ ent'.data.t = "table"
              /\ ent'.data.age = 1]_vars

\* C17: a successful constructor call with force_download set and
\* force_process not set runs process_raw_data after the download and
\* rewrites the raw cache entry, with or without a recipe and whether or not
\* a recipe cache entry exists, and loads an existing recipe cache entry
\* without invoking the recipe; with both flags set the recipe is invoked
\* on the recomputed raw data.
C17_FlagPrecedence ==
    [][(ConstructStep /\ ent'.err = NoErr /\ ent'.args.force_download) =>
          LET log == ent'.log
              a == ent'.args
              key == get_recipe_filename(DatasetName, a.recipe)
          IN  /\ \E i, j \in 1..Len(log) :
                    /\ i < j
                    /\ log[i] = "download"
                    /\ log[j] = "process_raw_data"
                    /\ log[j + 1] = "save_cache " \o DatasetName
              /\ (Truthy(a.recipe) /\ ~ a.force_process /\ is_file(files, key)) =>
                    /\ "load_cache " \o key \in Events(log)
                    /\ RecipeCalls(log) = {}
              /\ (Truthy(a.recipe) /\ a.force_process) =>
                    \E i \in RecipeCalls(log) : log[i - 2] = "process_raw_data"]_vars

\* C18: an entity whose latest call returned has its data assigned once, as
\* the last effect of the call, and the data is the recipe-processed table
\* (age + 1) exactly when a recipe was requested and the raw table
\* otherwise; a constructor call that raised has assigned no data.
C18_Lifecycle ==
    /\ ent.pc = "ready" /\ ent.err = NoErr =>
          /\ ent.log[Len(ent.log)] = "data"
          /\ Cardinality({i \in 1..Len(ent.log) : ent.log[i] = "data"}) = 1
          /\ ent.data.t = "table"
          /\ ent.data.age = IF RecipeRequested(ent.args) THEN 1 ELSE 0
    /\ ent.pc = "failed" => ent.data = NoData

\* C19: has_cache, load_cache and get_cache_path leave the cache root and
\* every file as they are; save_cache(data, key) leaves the cache root and
\* every file but `key` as they are, and with the cache root missing it
\* raises and creates nothing.
C19_CacheFrame ==
    [][last' # last =>
          /\ last'.op \in {"has_cache", "load_cache", "get_cache_path"} =>
                UNCHANGED <<cacheDir, files>>
          /\ last'.op = "save_cache" =>
                /\ cacheDir' = cacheDir
                /\ \A k \in (DOMAIN files \cup DOMAIN files') \ {last'.key} :
                      /\ k \in DOMAIN files
                      /\ k \in DOMAIN files'
                      /\ files'[k] = files[k]
                /\ cacheDir # "dir" =>
                      /\ last'.err = "FileNotFoundError"
                      /\ files' = files]_vars

\* a save with the cache root missing failed and created nothing
C19_Witness ==
    /\ last.op = "save_cache"
    /\ last.err = "FileNotFoundError"
    /\ cacheDir = "absent"
    /\ files = << >>

\* C20: every assignment of the storage path that is accepted, in the
\* constructor or later, is of a directory that exists then; after it fpath
\* is path / (name + extension); an assignment of a str or Path that is not
\* a directory raises ValueError, one of another type TypeError, and both
\* leave path and fpath as they were.
C20_StoragePath ==
    [][/\ desc'.made => desc'.fpath = JoinPath(desc'.path, desc'.name \o desc'.extension)
       /\ (last'.op \in {"DataSet", "set_path"} /\ last'.err = NoErr) =>
             /\ desc'.made
             /\ tree'[desc'.path] = "dir"
       /\ last'.op = "set_path" =>
             /\ last'.err = (IF ~ IsPathLike(last'.value) THEN "TypeError"
                             ELSE IF tree[last'.value.p] # "dir" THEN "ValueError"
                             ELSE NoErr)
             /\ last'.err = NoErr => desc'.path = last'.value.p
             /\ last'.err # NoErr => desc' = desc
       /\ last'.op = "fs" => desc' = desc]_vars

\* an assignment was rejected after the directory of the path had gone
C20_Witness ==
    /\ desc.made
    /\ last.op = "set_path"
    /\ last.err = "ValueError"
    /\ desc.path = "/data"
    /\ tree["/data"] = "absent"
    /\ desc.fpath = "/data/a_b.c"

\* the text lower-cased, every run of whitespace inside it replaced by one
\* underscore, whitespace at its ends dropped
RECURSIVE NormFrom(_, _, _, _)
NormFrom(chars, i, gap, started) ==
    IF i > Len(chars) THEN ""
    ELSE IF IsSpace(chars[i]) THEN NormFrom(chars, i + 1, started, started)
    ELSE (IF gap THEN "_" ELSE "") \o LowerChar(chars[i])
            \o NormFrom(chars, i + 1, FALSE, TRUE)

Norm(chars) == NormFrom(chars, 1, FALSE, FALSE)

\* the extension with a leading '.' added only when it has none
Dot(chars) == IF Head(chars) = "." THEN Str(chars) ELSE "." \o Str(chars)

BlocksOf(n) == (n + blocksize - 1) \div blocksize

\* C22: a fetch that meets no failure reads blocks of at most 8192 bytes,
\* writes each non-empty block as it is read and returns at the first empty
\* one; the progress count never decreases, grows by the length of each
\* block written, and when the call has returned it equals the size of the
\* destination file, which holds the whole stream; every started call ends.
C22_FetchLoop ==
    /\ [](/\ dl.block <= blocksize
          /\ (dl.err = NoErr /\ dl.pc \in {"read", "write", "returned"}) =>
                LET f == ReadFile(files, FetchPath)
                IN  /\ f.kind = "stream"
                    /\ f.total = dl.total
                    /\ f.written = dl.progress
                    /\ dl.pos = f.written + (IF dl.pc = "write" THEN dl.block ELSE 0)
                    /\ dl.blocknum = BlocksOf(f.written)
                    /\ dl.pc = "returned" =>
                          /\ dl.block = 0
                          /\ f.written = f.total
                          /\ dl.progress = dl.total)
    /\ [][(InTry(dl) /\ dl'.err = NoErr) =>
             /\ dl'.progress >= dl.progress
             /\ dl'.progress # dl.progress =>
                   /\ dl.pc = "write"
                   /\ dl.block > 0
                   /\ dl'.progress = dl.progress + dl.block
             /\ (dl.pc = "write" /\ dl' # dl) =>
                   dl'.pc = (IF dl.block = 0 THEN "returned" ELSE "read")]_vars
    /\ (dl.pc = "urlopen") ~> (dl.pc \in {"returned", "raised"})

\* a stream of MaxBlocks blocks, the last one short, was fetched
C22_Witness ==
    /\ dl.pc = "returned"
    /\ dl.blocknum = MaxBlocks
    /\ dl.total = (MaxBlocks - 1) * blocksize + 1
    /\ ReadFile(files, FetchPath).written = dl.total

\* C23: a constructor call invokes download() at most once.
C23_OneFetchPerConstruction ==
    (ent.pc # "none" /\ ent.op = "init") =>
        Cardinality({i \in 1..Len(ent.log) : ent.log[i] = "download"}) <= 1

\* C24: the data of an entity constructed with a recipe and recipe_kwargs
\* is the recipe applied to the raw data with these recipe_kwargs: for
\* shift_age the age column is shifted by the `by` of this construction.
C24_RecipeKwargsRespected ==
    (/\ ent.pc = "ready"
     /\ ent.err = NoErr
     /\ ent.op = "init"
     /\ ent.args.recipe = KwargsFn) =>
        ent.data = shift_age(Table(ReadFile(files, ent.path)), ent.args.recipe_kwargs)

\* C25: every key that was saved to and for which has_cache is true holds a
\* whole pickle, that of the last save to the key when that save completed;
\* no save leaves an empty or partial file.
C25_CacheEntriesLoadable ==
    \A key \in DOMAIN saved :
        has_cache(CacheFrame, key) =>
            LET f == ReadFile(files, key)
            IN  /\ f.kind = "pkl"
                /\ Loadable(f.bytes)
                /\ load_cache(CacheFrame, key).err = NoErr
                /\ saved[key].ok => Loads(f.bytes) = saved[key].val

NamesOf(fs) == {fs.raw, fs.cache, fs.recipe}

\* C27: two entities under one cache root with different (class, recipe)
\* pairs have different recipe cache files, and two entities of different
\* classes share no file: raw file, raw cache entry and recipe cache file
\* of the one differ from those of the other.
C27_FileNamesDisjoint ==
    last.op = "named" =>
        /\ <<last.cls1, last.recipe1>> # <<last.cls2, last.recipe2>> =>
              last.files1.recipe # last.files2.recipe
        /\ last.cls1 # last.cls2 =>
              NamesOf(last.files1) \cap NamesOf(last.files2) = {}

===========================================================================
